---- MODULE Spec2Model ----
(***************************************************************************)
(* Model of pdb_color_generic.py: read_generic_data, get_chains_only and   *)
(* make_output_script, run in sequence by main.                            *)
(*                                                                         *)
(* Numbers.  The program computes with floats.  The model computes with    *)
(* exact fixed-point numbers: every score, rounded bound, step and bin     *)
(* boundary is an integer count of 1/Unit.  Unit = 400 represents exactly  *)
(* every quantity the code derives from scores that are multiples of 1/4   *)
(* with a range in [0.1, 100): magnitude is then -1, 0 or 1, rounding is   *)
(* to 0.1 or to 1, steps are eighths or quarters of rounded bounds and the *)
(* near-zero offset round_correction/10 is 0.01, 0.1 or 1.  On the scores  *)
(* of Scores the exact results and those of IEEE doubles agree: the same   *)
(* number of boundaries, the same order, the same bin for every score and  *)
(* the same truncated number in every name.                                *)
(*                                                                         *)
(* Left out: what goes to stderr (the messages, and with them the median   *)
(* and columnmax, which only decide messages), blank or comment lines of   *)
(* the data file, which change nothing, and data lines with fewer columns  *)
(* than the score or chain column (an IndexError of line 76 or 78).        *)
(*                                                                         *)
(* The variables lines and dbrefs record the inputs read (the data rows,   *)
(* the DBREF records).  Only SpecRead and SpecChains record them; in Spec  *)
(* they stay empty.                                                        *)
(*                                                                         *)
(* A python dict keeps its keys in insertion order and the program relies  *)
(* on it (line 172 takes the first chain, the select directives list the   *)
(* residues in order), so a dict is a sequence of <<key, value>> pairs.    *)
(***************************************************************************)
EXTENDS Integers, Sequences, FiniteSets, TLC

Unit == 4 * 100

\* An optional value (python's None or a value) is a sequence of length 0 or 1
None == <<>>

Some(v) == <<v>>

IsNone(o) == Len(o) = 0

Val(o) == o[1]

----------------------------------------------------------------------------
(* Ordered dictionaries *)

Keys(d) == [i \in 1 .. Len(d) |-> d[i][1]]

Values(d) == [i \in 1 .. Len(d) |-> d[i][2]]

HasKey(d, k) == \E i \in 1 .. Len(d) : d[i][1] = k

Get(d, k) == d[CHOOSE i \in 1 .. Len(d) : d[i][1] = k][2]

GetOr(d, k, dflt) == IF HasKey(d, k) THEN Get(d, k) ELSE dflt

\* d[k] = v: an existing key keeps its place, a new key goes last
Put(d, k, v) ==
    IF HasKey(d, k)
    THEN [i \in 1 .. Len(d) |-> IF d[i][1] = k THEN <<k, v>> ELSE d[i]]
    ELSE Append(d, <<k, v>>)

SeqToSet(s) == {s[i] : i \in 1 .. Len(s)}

SeqMin(s) == CHOOSE x \in SeqToSet(s) : \A y \in SeqToSet(s) : x <= y

SeqMax(s) == CHOOSE x \in SeqToSet(s) : \A y \in SeqToSet(s) : x >= y

Abs(x) == IF x < 0 THEN -x ELSE x

----------------------------------------------------------------------------
(* numpy and python numerics, on counts of 1/Unit *)

\* 10**m as a count of 1/Unit, for m in -2 .. 2
Pow10(m) ==
    CASE m = -2 -> Unit \div 100
      [] m = -1 -> Unit \div 10
      [] m = 0  -> Unit
      [] m = 1  -> 10 * Unit
      [] m = 2  -> 100 * Unit

\* int(numpy.floor(numpy.log10(val_range))) for val_range > 0
Magnitude(val_range) ==
    CHOOSE m \in -2 .. 1 : Pow10(m) <= val_range /\ val_range < Pow10(m + 1)

\* numpy.around(x, decimals): to the nearest multiple of grain = 10**-decimals,
\* a tie going to the even multiple
Around(x, grain) ==
    LET q == x \div grain
        r == x % grain
    IN  IF 2 * r < grain THEN q * grain
        ELSE IF 2 * r > grain THEN (q + 1) * grain
        ELSE IF q % 2 = 0 THEN q * grain ELSE (q + 1) * grain

\* the length numpy.arange gives: ceil((stop - start) / step), at least 0
ArangeLen(start, stop, step) ==
    IF stop <= start THEN 0 ELSE ((stop - start) + step - 1) \div step

\* numpy.arange(start, stop, step).tolist() for step > 0
Arange(start, stop, step) ==
    [i \in 1 .. ArangeLen(start, stop, step) |-> start + (i - 1) * step]

\* int(x * factor) for a value x (a count of 1/Unit): truncation toward zero
IntScaled(x, factor) ==
    IF x >= 0 THEN (x * factor) \div Unit ELSE -(((-x) * factor) \div Unit)

----------------------------------------------------------------------------
(* make_output_script: the bin boundaries (lines 172-235) *)

ZEROOVERRIDE == 0

\* line 172: itertools.chain is given ONE argument, a generator of lists, so
\* it yields the per-chain lists themselves and [0] keeps the first chain's
AllScores(scoredict) == Values(scoredict[1][2])

lowest_val(scoredict) == SeqMin(AllScores(scoredict))

highest_val(scoredict) == SeqMax(AllScores(scoredict))

val_range(scoredict) == highest_val(scoredict) - lowest_val(scoredict)

\* line 179: numpy.around([lowest_val, highest_val], decimals=abs(min([magnitude, 0])))
RoundRange(lo, hi, magnitude) ==
    LET grain == Pow10(IF magnitude < 0 THEN magnitude ELSE 0)
    IN  <<Around(lo, grain), Around(hi, grain)>>

\* lines 192-195: the rounded lower bound, less 10**magnitude when it is
\* greater than the lowest value
CorrectedLow(rounded_low, lo, round_correction) ==
    IF rounded_low > lo THEN rounded_low - round_correction ELSE rounded_low

\* lines 197-198: the magnitude the selection names are scaled by
NameMagnitude(range, magnitude) ==
    IF Unit < range /\ range < 8 * Unit THEN magnitude - 1 ELSE magnitude

\* lines 204-207: all values are positive
SequentialBins(low, high, rounded_diff, round_correction) ==
    LET last_bin     == high + round_correction
        rounded_step == rounded_diff \div 8
    IN  Append(Arange(low, high + rounded_step, rounded_step), last_bin)

\* lines 217-224: values span 0
DivergingBins(low, high, round_correction) ==
    LET low_step  == Abs(low) \div 4
        nearzero  == ZEROOVERRIDE + round_correction \div 10
        low_set   == Arange(low, nearzero, low_step)
        high_step == high \div 4
        high_set  == Arange(nearzero, high + high_step, high_step)
    IN  low_set \o high_set

\* The sign-pattern branch of lines 202, 214 and 227
Branch(lo, hi) ==
    IF lo >= 0 THEN "sequential"
    ELSE IF lo < 0 /\ hi > 0 THEN "diverging"
    ELSE "negative"

\* lines 187-188, 210-211, 225-226, 232-233
DefaultIndex(default_chain_grp, branch) ==
    IF ~IsNone(default_chain_grp) THEN Val(default_chain_grp)
    ELSE CASE branch = "sequential" -> 0
           [] branch = "diverging"  -> 4
           [] branch = "negative"   -> 8

\* Lines 172-240 as a whole: the exception that ends them ("" for none), the
\* boundaries, the default bin index (optional: None while unassigned), the
\* naming magnitude and all_scores.  The exceptions:
\*   IndexError    line 172, [0] of an empty list (no chain in the table)
\*   OverflowError line 177, int(floor(log10(0))) = int(-inf)
\*   ArangeError   line 222, numpy.arange with a step of 0 (max rounds to 0)
\*   NameError     line 240, binvalues was never assigned (no value above 0)
DeriveBins(scoredict, default_chain_grp) ==
    IF Len(scoredict) = 0
    THEN [error |-> "IndexError", binvalues |-> <<>>, defaultindex |-> None,
          magnitude |-> 0, all_scores |-> <<>>]
    ELSE IF val_range(scoredict) = 0
    THEN [error |-> "OverflowError", binvalues |-> <<>>, defaultindex |-> None,
          magnitude |-> 0, all_scores |-> AllScores(scoredict)]
    ELSE
    LET lo   == lowest_val(scoredict)
        hi   == highest_val(scoredict)
        mag  == Magnitude(hi - lo)
        rr   == RoundRange(lo, hi, mag)
        diff == rr[2] - rr[1]
        corr == Pow10(mag)
        low  == CorrectedLow(rr[1], lo, corr)
        br   == Branch(lo, hi)
        dflt == DefaultIndex(default_chain_grp, br)
        nmag == NameMagnitude(hi - lo, mag)
    IN  CASE br = "sequential" ->
               [error |-> "", binvalues |-> SequentialBins(low, rr[2], diff, corr),
                defaultindex |-> Some(dflt), magnitude |-> nmag, all_scores |-> AllScores(scoredict)]
          [] br = "diverging" ->
               IF rr[2] = 0
               THEN [error |-> "ArangeError", binvalues |-> <<>>,
                     defaultindex |-> default_chain_grp,
                     magnitude |-> nmag, all_scores |-> AllScores(scoredict)]
               ELSE [error |-> "", binvalues |-> DivergingBins(low, rr[2], corr),
                     defaultindex |-> Some(dflt), magnitude |-> nmag, all_scores |-> AllScores(scoredict)]
          [] br = "negative" ->
               [error |-> "NameError", binvalues |-> <<>>, defaultindex |-> Some(dflt),
                magnitude |-> nmag, all_scores |-> AllScores(scoredict)]

\* line 235: binname_correction = 10/10**magnitude, for magnitude in -2 .. 1
binname_correction(magnitude) ==
    CASE magnitude = -2 -> 1000
      [] magnitude = -1 -> 100
      [] magnitude = 0  -> 10
      [] magnitude = 1  -> 1

----------------------------------------------------------------------------
(* make_output_script: the directives (lines 240-279) *)

\* The names of colors, lines 125-165
Palettes == {"red", "yellow", "blue", "green", "div1w", "div1b", "div2w", "div2b"}

\* Every list of colors has 9 entries
PaletteSize == 9

\* "{}{:02d}".format(basecolor, int(value*binname_correction)): the number is
\* kept as a number, which the format maps one to one to text
ColorName(basecolor, value, magnitude) ==
    [base |-> basecolor, num |-> Some(IntScaled(value, binname_correction(magnitude)))]

colordefault == [base |-> "colordefault", num |-> None]

\* lines 241-246, the four writes before the palette is looked up
Preamble ==
    << [op |-> "hide everything"],
       [op |-> "show cartoon"],
       [op |-> "set_color", name |-> colordefault, rgb |-> <<"insuf_color", 0>>],
       [op |-> "color", name |-> colordefault, target |-> [kind |-> "all"]] >>

\* lines 248-253: one set_color per palette entry i (0-based) for which
\* binvalues[i] exists; entry i is colors[basecolor][i], or [8-i] when reversed
SetColors(basecolor, reverse_colors, binvalues, magnitude) ==
    LET n == IF Len(binvalues) < PaletteSize THEN Len(binvalues) ELSE PaletteSize
    IN  [k \in 1 .. n |->
            [op   |-> "set_color",
             name |-> ColorName(basecolor, binvalues[k], magnitude),
             rgb  |-> <<basecolor, IF reverse_colors THEN PaletteSize - k ELSE k - 1>>]]

\* lines 262-266: the 0-based bin of a score, the first i over binvalues[:-1]
\* with score < binvalues[i+1]; -1 when the loop ends without a break
BinOf(residuescore, binvalues) ==
    LET hits == {i \in 0 .. Len(binvalues) - 2 : residuescore < binvalues[i + 2]}
    IN  IF hits = {} THEN -1 ELSE CHOOSE i \in hits : \A j \in hits : i <= j

\* scoregroups[value] after the loop of lines 260-266: the residues, less the
\* chain offset, in the order of the chain's dict, that were appended under
\* the key value
ScoreGroup(residues, binvalues, value, chainoffset) ==
    LET InGroup(p) == /\ BinOf(p[2], binvalues) >= 0
                      /\ binvalues[BinOf(p[2], binvalues) + 1] = value
        kept == SelectSeq(residues, InGroup)
    IN  [k \in 1 .. Len(kept) |-> kept[k][1] - chainoffset]

\* python's seq[i] takes i in -len .. len-1, a negative i counting from the end
IndexInRange(seq, i) == -Len(seq) <= i /\ i < Len(seq)

PyIndex(seq, i) == IF i >= 0 THEN seq[i + 1] ELSE seq[Len(seq) + i + 1]

\* A variant of BinDirectives that does not skip the default bin when
\* exclude_common
BinDirectivesNoExclusion(i, chain, residues, chainoffset, binvalues, defaultindex, magnitude, basecolor, groupname, exclude_common) ==
    LET value    == binvalues[i + 1]
        binname  == [num |-> IntScaled(value, binname_correction(magnitude)),
                     group |-> groupname, ordinal |-> i + 1, chain |-> chain]
        resilist == ScoreGroup(residues, binvalues, value, chainoffset)
    IN  IF Len(resilist) = 0
        THEN << >>
        ELSE << [op |-> "select", binname |-> binname, chain |-> chain,
                 resi |-> resilist],
                [op |-> "color", name |-> ColorName(basecolor, value, magnitude),
                 target |-> [kind |-> "selection", binname |-> binname]] >>

\* lines 274-279 for bin i (0-based) of a chain: nothing for an empty group or
\* for the default bin when exclude_common
BinDirectives(i, chain, residues, chainoffset, binvalues, defaultindex, magnitude, basecolor, groupname, exclude_common) ==
    LET value    == binvalues[i + 1]
        binname  == [num |-> IntScaled(value, binname_correction(magnitude)),
                     group |-> groupname, ordinal |-> i + 1, chain |-> chain]
        resilist == ScoreGroup(residues, binvalues, value, chainoffset)
    IN  IF (i = defaultindex /\ exclude_common) \/ Len(resilist) = 0
        THEN << >>
        ELSE << [op |-> "select", binname |-> binname, chain |-> chain,
                 resi |-> resilist],
                [op |-> "color", name |-> ColorName(basecolor, value, magnitude),
                 target |-> [kind |-> "selection", binname |-> binname]] >>

RECURSIVE AllBinDirectives(_, _, _, _, _, _, _, _, _, _)
\* lines 271-279: the bins 0 .. i-1 of a chain in ascending order
AllBinDirectives(i, chain, residues, chainoffset, binvalues, defaultindex, magnitude, basecolor, groupname, exclude_common) ==
    IF i = 0 THEN << >>
    ELSE AllBinDirectives(i - 1, chain, residues, chainoffset, binvalues,
                          defaultindex, magnitude, basecolor, groupname,
                          exclude_common)
         \o BinDirectives(i - 1, chain, residues, chainoffset, binvalues,
                          defaultindex, magnitude, basecolor, groupname,
                          exclude_common)

\* A variant of ChainDirectives in which the directives of the bins come
\* before the whole-chain color
ChainDirectivesBinsFirst(chain, scoredict, refoffsets, binvalues, defaultindex, magnitude, basecolor, groupname, exclude_common) ==
    LET chainoffset == GetOr(refoffsets, chain, 0)
        residues    == GetOr(scoredict, chain, << >>)
    IN  AllBinDirectives(Len(binvalues) - 1, chain, residues, chainoffset,
                         binvalues, defaultindex, magnitude, basecolor,
                         groupname, exclude_common)
        \o << [op |-> "color",
               name |-> ColorName(basecolor, PyIndex(binvalues, defaultindex), magnitude),
               target |-> [kind |-> "chain", chain |-> chain]] >>

\* lines 257-279 for one chain: the whole-chain color, then the bins
ChainDirectives(chain, scoredict, refoffsets, binvalues, defaultindex, magnitude, basecolor, groupname, exclude_common) ==
    LET chainoffset == GetOr(refoffsets, chain, 0)
        residues    == GetOr(scoredict, chain, << >>)
    IN  << [op |-> "color",
            name |-> ColorName(basecolor, PyIndex(binvalues, defaultindex), magnitude),
            target |-> [kind |-> "chain", chain |-> chain]] >>
        \o AllBinDirectives(Len(binvalues) - 1, chain, residues, chainoffset,
                            binvalues, defaultindex, magnitude, basecolor,
                            groupname, exclude_common)

RECURSIVE AllChainDirectives(_, _, _, _, _, _, _, _, _, _)
\* line 256: the first n chains of keepchains, in order
AllChainDirectives(n, keepchains, scoredict, refoffsets, binvalues, defaultindex, magnitude, basecolor, groupname, exclude_common) ==
    IF n = 0 THEN << >>
    ELSE AllChainDirectives(n - 1, keepchains, scoredict, refoffsets, binvalues,
                            defaultindex, magnitude, basecolor, groupname,
                            exclude_common)
         \o ChainDirectives(keepchains[n][1], scoredict, refoffsets, binvalues,
                            defaultindex, magnitude, basecolor, groupname,
                            exclude_common)

RECURSIVE Touch(_, _, _)
\* scoredict is a defaultdict(dict): line 260 reads scoredict[chain], which
\* inserts an empty dict for a chain that has no score.  The table after the
\* first n chains of keepchains were looked up
Touch(scoredict, keepchains, n) ==
    IF n = 0 THEN scoredict
    ELSE LET d == Touch(scoredict, keepchains, n - 1)
             c == keepchains[n][1]
         IN  IF HasKey(d, c) THEN d ELSE Append(d, <<c, << >> >>)

\* Lines 241-279 when lines 172-240 raised nothing: the exception that ends
\* make_output_script ("" for none), what was written to wayout until then,
\* and the table (which line 260 may extend).  The exceptions:
\*   KeyError    line 248, colors[basecolor] of an unknown name, after the
\*               four writes of lines 241-246
\*   IndexError  line 252, binvalues[i] with fewer than 9 boundaries, after
\*               the set_color of the entries before i
\*   IndexError  line 269, binvalues[defaultindex] out of range, in the first
\*               chain, after every set_color
WriteDirectives(bins, scoredict, keepchains, refoffsets, groupname, exclude_common, basecolor, reverse_colors) ==
    LET base == [error |-> "", output |-> << >>, scoredict |-> scoredict]
        cols == SetColors(basecolor, reverse_colors, bins.binvalues, bins.magnitude)
    IN  IF basecolor \notin Palettes
        THEN [base EXCEPT !.error = "KeyError", !.output = Preamble]
        ELSE IF Len(bins.binvalues) < PaletteSize
        THEN [base EXCEPT !.error = "IndexError", !.output = Preamble \o cols]
        ELSE IF Len(keepchains) = 0
        THEN [base EXCEPT !.output = Preamble \o cols]
        ELSE IF ~IndexInRange(bins.binvalues, Val(bins.defaultindex))
        THEN [base EXCEPT !.error = "IndexError", !.output = Preamble \o cols,
                          !.scoredict = Touch(scoredict, keepchains, 1)]
        ELSE [base EXCEPT
                 !.output = Preamble \o cols \o
                     AllChainDirectives(Len(keepchains), keepchains, scoredict,
                                        refoffsets, bins.binvalues,
                                        Val(bins.defaultindex), bins.magnitude,
                                        basecolor, groupname, exclude_common),
                 !.scoredict = Touch(scoredict, keepchains, Len(keepchains))]

\* A variant of WriteScript in which the writes of lines 241-246 come before
\* the boundaries are derived
WriteScriptPreambleFirst(bins, scoredict, keepchains, refoffsets, groupname, exclude_common, basecolor, reverse_colors) ==
    IF bins.error /= ""
    THEN [error |-> bins.error, output |-> Preamble, scoredict |-> scoredict]
    ELSE WriteDirectives(bins, scoredict, keepchains, refoffsets, groupname,
                         exclude_common, basecolor, reverse_colors)

\* Lines 172-279, given the outcome bins of lines 172-240: an exception of
\* those lines ends the call before anything is written (the first write is
\* on line 241)
WriteScript(bins, scoredict, keepchains, refoffsets, groupname, exclude_common, basecolor, reverse_colors) ==
    IF bins.error /= ""
    THEN [error |-> bins.error, output |-> << >>, scoredict |-> scoredict]
    ELSE WriteDirectives(bins, scoredict, keepchains, refoffsets, groupname,
                         exclude_common, basecolor, reverse_colors)

----------------------------------------------------------------------------
(* get_chains_only (lines 89-116) *)

\* seqid.find(proteinid) > -1, identifiers being sequences of characters
IsSubstring(needle, hay) ==
    \E k \in 0 .. Len(hay) - Len(needle) :
        \A j \in 1 .. Len(needle) : hay[k + j] = needle[j]

RECURSIVE KeepMatching(_, _, _)
\* lines 100-108 for one DBREF record: every sequence ID that contains the
\* record's protein ID sets keepchains and refoffsets for the record's chain
KeepMatching(state, rec, seqidlist) ==
    IF Len(seqidlist) = 0 THEN state
    ELSE LET rest == KeepMatching(state, rec, SubSeq(seqidlist, 1, Len(seqidlist) - 1))
             seqid == seqidlist[Len(seqidlist)]
         IN  IF IsSubstring(rec.proteinid, seqid)
             THEN [rest EXCEPT
                     !.keepchains = Put(rest.keepchains, rec.chain, rec.proteinid),
                     !.refoffsets = Put(rest.refoffsets, rec.chain,
                                        rec.dbstart - rec.chainstart)]
             ELSE rest

RECURSIVE ScanRecords(_, _, _)
\* lines 94-108 over the DBREF records of the file, in order.  A record
\* clears defaultchain (line 98); iterating seqidlist when -s was not given
\* (None) is a TypeError
ScanRecords(pdb, n, seqidlist) ==
    IF n = 0
    THEN [error |-> "", found |-> FALSE, keepchains |-> << >>, refoffsets |-> << >>]
    ELSE LET before == ScanRecords(pdb, n - 1, seqidlist)
         IN  IF before.error /= "" THEN before
             ELSE IF IsNone(seqidlist)
             THEN [before EXCEPT !.error = "TypeError", !.found = TRUE]
             ELSE [KeepMatching(before, pdb[n], Val(seqidlist)) EXCEPT !.found = TRUE]

\* get_chains_only as a whole: after the scan, the default chain is used only
\* if no DBREF record was seen at all (lines 109-115)
GetChains(defaultchain, seqidlist, pdb) ==
    LET scan == ScanRecords(pdb, Len(pdb), seqidlist)
    IN  IF scan.error /= "" \/ scan.found THEN scan
        ELSE [scan EXCEPT
                !.keepchains = Put(scan.keepchains, defaultchain,
                                   IF ~IsNone(seqidlist) /\ Len(Val(seqidlist)) > 0
                                   THEN Val(seqidlist)[1] ELSE <<"UNKNOWN">>),
                !.refoffsets = Put(scan.refoffsets, defaultchain, 0)]

----------------------------------------------------------------------------
(* The inputs of a run *)

\* At most this many data rows are read
MaxRows == 3

\* Scores, as counts of 1/Unit: -12, -3, 0, 0.25, 1.75, 2.25 and 12
Scores == {-4800, -1200, 0, 100, 700, 900, 4800}

\* The data rows: the text of the site column, the score column (a number,
\* None for text float() rejects) and the chain column, which is only read
\* when --chain-column is given.  Chain A has rows for the sites 1 and 2,
\* chain B for site 1; a header row; a row whose site is "inf"; a row with a
\* site and no number for a score
Rows ==
    [site : {"1", "2", "2.0"}, score : {Some(x) : x \in Scores}, chain : {"A"}]
    \cup [site : {"1"}, score : {Some(x) : x \in Scores}, chain : {"B"}]
    \cup [site : {"site", "inf"}, score : {Some(0)}, chain : {"A"}]
    \cup [site : {"1"}, score : {None}, chain : {"A"}]

P1 == <<"P", "1">>

P2 == <<"P", "2">>

\* The DBREF records of the PDB files: none; chain A of P1, numbered one
\* below the database sequence; chains A and B of P1; chain B of P2
PDBFiles ==
    { << >>,
      << [chain |-> "A", proteinid |-> P1, chainstart |-> 1, dbstart |-> 2] >>,
      << [chain |-> "A", proteinid |-> P1, chainstart |-> 1, dbstart |-> 1],
         [chain |-> "B", proteinid |-> P1, chainstart |-> 1, dbstart |-> 1] >>,
      << [chain |-> "B", proteinid |-> P2, chainstart |-> 1, dbstart |-> 1] >> }

\* The defaults of the command line (lines 286-299)
Defaults ==
    [group_name |-> "grp", default_chain |-> "A", base_color |-> "red",
     sequence |-> None, exclude_common_group |-> FALSE,
     default_chain_override |-> None, reverse_colors |-> FALSE,
     chain_column |-> None]

\* The values an option is given
Options ==
    [group_name : {"grp"},
     default_chain : {"A"},
     base_color : {"red", "purple"},
     sequence : {None, Some(<<P1>>)},
     exclude_common_group : BOOLEAN,
     default_chain_override : {None, Some(0), Some(9)},
     reverse_colors : BOOLEAN,
     chain_column : {None, Some(2)}]

\* At most this many options are given a value other than their default
MaxOptions == 2

\* The parsed command lines (line 300)
Args ==
    {a \in Options :
        Cardinality({f \in DOMAIN Defaults : a[f] /= Defaults[f]}) <= MaxOptions}

----------------------------------------------------------------------------
(* The run: main (lines 282-307) *)

VARIABLES
    pc,             \* "read", "readfailed", "chains", "script", "done" or "failed"
    lines,          \* the data rows read so far, when the run records them
    dbrefs,         \* the DBREF records of the PDB file read, when the run records them
    args,           \* the parsed command line
    rawscore_dict,  \* the score table: chain -> (site -> score)
    linecounter,    \* read_generic_data: data lines seen
    foundscores,    \* read_generic_data: scores stored
    keepchains,     \* get_chains_only: chain -> sequence ID
    refoffsets,     \* get_chains_only: chain -> DBREF offset
    all_scores,     \* make_output_script: the scores the boundaries are derived from
    binvalues,      \* make_output_script: the boundaries
    defaultindex,   \* make_output_script: the default bin index, None while unassigned
    magnitude,      \* make_output_script: the magnitude the names are scaled by
    wayout,         \* the directives written so far
    error           \* the exception that ended the run, "" for none

vars == <<pc, lines, dbrefs, args, rawscore_dict, linecounter, foundscores, keepchains,
          refoffsets, all_scores, binvalues, defaultindex, magnitude, wayout, error>>

Init ==
    /\ pc = "read"
    /\ lines = << >>
    /\ dbrefs = None
    /\ args \in Args
    /\ rawscore_dict = << >>
    /\ linecounter = 0
    /\ foundscores = 0
    /\ keepchains = << >>
    /\ refoffsets = << >>
    /\ all_scores = << >>
    /\ binvalues = << >>
    /\ defaultindex = None
    /\ magnitude = 0
    /\ wayout = << >>
    /\ error = ""

\* line 73, int(float(sitecol)): the integer, or the exception.  Text that
\* is no number is a ValueError of float(); a decimal is truncated; an
\* infinity is accepted by float() and int() of it is an OverflowError
IntOfFloat(sitecol) ==
    CASE sitecol = "1"    -> [error |-> "", site |-> 1]
      [] sitecol = "2"    -> [error |-> "", site |-> 2]
      [] sitecol = "2.0"  -> [error |-> "", site |-> 2]
      [] sitecol = "site" -> [error |-> "ValueError", site |-> 0]
      [] sitecol = "inf"  -> [error |-> "OverflowError", site |-> 0]

\* lines 77-81: the table after a row with the integer site and a score
StoreRow(scoredict, row, chaincolumn, defaultchain) ==
    LET chain == IF ~IsNone(chaincolumn) THEN row.chain ELSE defaultchain
        site  == IntOfFloat(row.site).site
    IN  Put(scoredict, chain, Put(GetOr(scoredict, chain, << >>), site, Val(row.score)))

\* lines 71-82 for one data line: the exception that ends read_generic_data
\* ("" for none), the table and the number of scores stored (0 or 1).  Only
\* the ValueError of line 73 is caught (line 74): the row is skipped.  The
\* exceptions:
\*   OverflowError line 73, int() of an infinity
\*   ValueError    line 76, float() of a score that is no number
ProcessRow(scoredict, row, chaincolumn, defaultchain) ==
    LET conv == IntOfFloat(row.site)
    IN  IF conv.error = "ValueError"
        THEN [error |-> "", scoredict |-> scoredict, found |-> 0]
        ELSE IF conv.error /= ""
        THEN [error |-> conv.error, scoredict |-> scoredict, found |-> 0]
        ELSE IF IsNone(row.score)
        THEN [error |-> "ValueError", scoredict |-> scoredict, found |-> 0]
        ELSE [error |-> "", found |-> 1,
              scoredict |-> StoreRow(scoredict, row, chaincolumn, defaultchain)]

\* One pass of the loop of lines 64-82 over a data line (not blank, not a
\* comment)
ReadLine(row) ==
    LET r == ProcessRow(rawscore_dict, row, args.chain_column, args.default_chain)
    IN  /\ linecounter' = linecounter + 1
        /\ rawscore_dict' = r.scoredict
        /\ foundscores' = foundscores + r.found
        /\ error' = r.error
        /\ pc' = IF r.error = "" THEN "read" ELSE "readfailed"
        /\ UNCHANGED <<args, keepchains, refoffsets, all_scores, binvalues,
                       defaultindex, magnitude, wayout>>

\* A data line is read
ReadRow ==
    /\ pc = "read"
    /\ linecounter < MaxRows
    /\ \E row \in Rows : ReadLine(row)
    /\ UNCHANGED <<lines, dbrefs>>

\* A data line is read, and the run records it
ReadRowRecorded ==
    /\ pc = "read"
    /\ linecounter < MaxRows
    /\ \E row \in Rows : ReadLine(row) /\ lines' = Append(lines, row)
    /\ UNCHANGED dbrefs

\* The end of the data file: read_generic_data returns the table (line 87)
EndOfData ==
    /\ pc = "read"
    /\ pc' = "chains"
    /\ UNCHANGED <<lines, dbrefs, args, rawscore_dict, linecounter, foundscores, keepchains,
                   refoffsets, all_scores, binvalues, defaultindex, magnitude,
                   wayout, error>>

\* line 306: get_chains_only over a PDB file
ReadPDB(pdb) ==
    LET r == GetChains(args.default_chain, args.sequence, pdb)
    IN  /\ keepchains' = r.keepchains
        /\ refoffsets' = r.refoffsets
        /\ error' = r.error
        /\ pc' = IF r.error = "" THEN "script" ELSE "failed"
        /\ UNCHANGED <<lines, args, rawscore_dict, linecounter, foundscores,
                       all_scores, binvalues, defaultindex, magnitude, wayout>>

\* The PDB file is read
GetChainsOnly ==
    /\ pc = "chains"
    /\ \E pdb \in PDBFiles : ReadPDB(pdb)
    /\ UNCHANGED dbrefs

\* The PDB file is read, and the run records its DBREF records
GetChainsOnlyRecorded ==
    /\ pc = "chains"
    /\ \E pdb \in PDBFiles : ReadPDB(pdb) /\ dbrefs' = Some(pdb)

\* line 307: make_output_script, its two halves each computed once
MakeOutputScript ==
    /\ pc = "script"
    /\ \E bins \in {DeriveBins(rawscore_dict, args.default_chain_override)} :
       \E r \in {WriteScript(bins, rawscore_dict, keepchains, refoffsets,
                             args.group_name, args.exclude_common_group,
                             args.base_color, args.reverse_colors)} :
           /\ rawscore_dict' = r.scoredict
           /\ all_scores' = bins.all_scores
           /\ binvalues' = bins.binvalues
           /\ defaultindex' = bins.defaultindex
           /\ magnitude' = bins.magnitude
           /\ wayout' = r.output
           /\ error' = r.error
           /\ pc' = IF r.error = "" THEN "done" ELSE "failed"
    /\ UNCHANGED <<lines, dbrefs, args, linecounter, foundscores, keepchains, refoffsets>>

Next == ReadRow \/ EndOfData \/ GetChainsOnly \/ MakeOutputScript

Spec == Init /\ [][Next]_vars

\* read_generic_data alone (line 303), the rows it reads recorded: its
\* parameters are the chain column and the default chain
InitRead ==
    /\ Init
    /\ \A f \in DOMAIN Defaults \ {"chain_column"} : args[f] = Defaults[f]

NextRead == ReadRowRecorded \/ EndOfData

SpecRead == InitRead /\ [][NextRead]_vars

\* main up to get_chains_only (lines 303-306), the DBREF records it reads
\* recorded
NextChains == ReadRow \/ EndOfData \/ GetChainsOnlyRecorded

SpecChains == Init /\ [][NextChains]_vars

----------------------------------------------------------------------------
(* What the claims speak of *)

\* make_output_script was called and has returned or raised (the only
\* exception of get_chains_only is the TypeError)
ScriptEnded == pc \in {"done", "failed"} /\ error /= "TypeError"

\* The scores of every chain of the table
TableScores ==
    UNION {SeqToSet(Values(rawscore_dict[c][2])) : c \in 1 .. Len(rawscore_dict)}

\* The number of (chain, residue) entries of the table
TableEntries ==
    Cardinality(UNION {{<<c, r>> : r \in 1 .. Len(rawscore_dict[c][2])} :
                          c \in 1 .. Len(rawscore_dict)})

TableMin == CHOOSE x \in TableScores : \A y \in TableScores : x <= y

TableMax == CHOOSE x \in TableScores : \A y \in TableScores : x >= y

Ascending(seq) == \A i \in 1 .. Len(seq) - 1 : seq[i] < seq[i + 1]

\* C1: for any non-empty score table, make_output_script derives exactly 9
\* boundaries and they are strictly ascending.
C1_NineAscendingBoundaries ==
    (ScriptEnded /\ foundscores > 0) =>
        Len(binvalues) = 9 /\ Ascending(binvalues)

\* C2: when the script was written, every score of every chain of the table
\* is strictly less than the last boundary.
C2_ScoresBelowLastBoundary ==
    pc = "done" =>
        \A x \in TableScores : x < binvalues[Len(binvalues)]

\* C3: when the script was written, every residue of every kept chain is in the
\* score group of exactly one bin.
C3_EachResidueInOneBin ==
    pc = "done" =>
        \A k \in 1 .. Len(keepchains) :
            LET chain    == keepchains[k][1]
                residues == GetOr(rawscore_dict, chain, << >>)
                offset   == GetOr(refoffsets, chain, 0)
            IN  \A n \in 1 .. Len(residues) :
                    Cardinality({i \in 0 .. Len(binvalues) - 2 :
                        residues[n][1] - offset \in
                            SeqToSet(ScoreGroup(residues, binvalues,
                                                binvalues[i + 1], offset))}) = 1

\* C4: whenever boundaries are derived, the scores they are derived from are
\* the scores of all the chains of the table.
C4_BoundariesFromAllChains ==
    (ScriptEnded /\ Len(binvalues) > 0) =>
        Len(all_scores) = TableEntries /\ SeqToSet(all_scores) = TableScores

\* C5: when no score is above 0 (here: with two different scores and a known
\* palette), make_output_script derives boundaries, uses the override or else 8
\* as default bin index, and writes the script instead of failing.
C5_NegativeDataWritesScript ==
    (ScriptEnded /\ foundscores > 0 /\ args.base_color \in Palettes
        /\ TableMax <= 0 /\ TableMin < TableMax) =>
        /\ pc = "done"
        /\ Len(binvalues) > 0
        /\ defaultindex = IF IsNone(args.default_chain_override)
                          THEN Some(8) ELSE args.default_chain_override
        /\ Len(wayout) > 0

\* C6: with an unknown palette name the run fails and nothing has been written
\* when it fails.
C6_UnknownPaletteWritesNothing ==
    (ScriptEnded /\ args.base_color \notin Palettes) =>
        pc = "failed" /\ wayout = << >>

\* C7: when no score was read, make_output_script fails and nothing has been
\* written when it fails.
C7_EmptyTableFailsBeforeOutput ==
    (ScriptEnded /\ foundscores = 0) =>
        pc = "failed" /\ wayout = << >>

\* A run that read data lines but no score and failed in make_output_script
C7_Witness ==
    /\ pc = "failed"
    /\ error = "IndexError"
    /\ linecounter > 0
    /\ foundscores = 0
    /\ wayout = << >>

\* C8: the default bin index of the whole-chain color directives is the
\* override when one is given, and otherwise 0 when no score of the table is
\* negative and 4 when the scores of the table span zero.
C8_DefaultIndexByOverrideOrSign ==
    (pc = "done" /\ Len(keepchains) > 0) =>
        defaultindex =
            IF ~IsNone(args.default_chain_override) THEN args.default_chain_override
            ELSE IF TableMin >= 0 THEN Some(0)
            ELSE IF TableMax > 0 THEN Some(4)
            ELSE defaultindex

\* C9: the default bin index that reaches binvalues[defaultindex] is in 0 .. 8.
C9_DefaultIndexInRange ==
    (pc = "done" /\ Len(keepchains) > 0) => Val(defaultindex) \in 0 .. 8

\* C10: when no score of the table is negative, the first boundary is at most
\* the lowest score.
C10_FirstBoundaryAtMostMin ==
    (ScriptEnded /\ Len(binvalues) > 0 /\ TableMin >= 0) =>
        binvalues[1] <= TableMin

----------------------------------------------------------------------------
(* The shape of the script written to wayout *)

IsSetColor(d) == d.op = "set_color" /\ d.name /= colordefault

IsChainColor(d) == d.op = "color" /\ d.target.kind = "chain"

IsSelect(d) == d.op = "select"

IsBinColor(d) == d.op = "color" /\ d.target.kind = "selection"

SetColorPositions == {i \in 1 .. Len(wayout) : IsSetColor(wayout[i])}

ChainColorPositions == {i \in 1 .. Len(wayout) : IsChainColor(wayout[i])}

SelectPositions == {i \in 1 .. Len(wayout) : IsSelect(wayout[i])}

BinColorPositions == {i \in 1 .. Len(wayout) : IsBinColor(wayout[i])}

\* The whole-chain color directive that opens the block position i is in,
\* 0 when no whole-chain color directive comes before i
ChainBlockStart(i) ==
    LET before == {j \in ChainColorPositions : j <= i}
    IN  IF before = {} THEN 0 ELSE CHOOSE j \in before : \A k \in before : k <= j

\* C11: what has been written is in the fixed order: first the directives of
\* the neutral default color, then the set_color directives of the palette
\* entries and nothing but them, then blocks of one whole-chain color directive
\* followed by select directives in ascending bin order, each immediately
\* followed by the color directive of the same bin name and each naming the
\* chain of its block; and when the script is complete there are exactly 9
\* set_color directives and one block per kept chain, in the order of the
\* kept chains.
C11_DirectivesInFixedOrder ==
    Len(wayout) > 0 =>
        /\ Len(wayout) >= Len(Preamble)
        /\ SubSeq(wayout, 1, Len(Preamble)) = Preamble
        /\ SetColorPositions =
               Len(Preamble) + 1 .. Len(Preamble) + Cardinality(SetColorPositions)
        /\ \A i \in Len(Preamble) + Cardinality(SetColorPositions) + 1 .. Len(wayout) :
               i \in ChainColorPositions \cup SelectPositions \cup BinColorPositions
        /\ \A i \in SelectPositions :
               /\ i + 1 \in BinColorPositions
               /\ wayout[i + 1].target.binname = wayout[i].binname
               /\ ChainBlockStart(i) > 0
               /\ wayout[ChainBlockStart(i)].target.chain = wayout[i].chain
               /\ wayout[i].binname.chain = wayout[i].chain
        /\ \A j \in BinColorPositions : j - 1 \in SelectPositions
        /\ \A i, j \in SelectPositions :
               (i < j /\ ChainBlockStart(i) = ChainBlockStart(j)) =>
                   wayout[i].binname.ordinal < wayout[j].binname.ordinal
        /\ pc = "done" =>
               /\ Cardinality(SetColorPositions) = PaletteSize
               /\ Cardinality(ChainColorPositions) = Len(keepchains)
               /\ \A k \in 1 .. Len(keepchains) :
                      \E i \in ChainColorPositions :
                          /\ Cardinality({j \in ChainColorPositions : j < i}) = k - 1
                          /\ wayout[i].target.chain = keepchains[k][1]

\* A complete script for two kept chains, the first with residues in two
\* bins and the second with a residue in a bin
C11_Witness ==
    /\ pc = "done"
    /\ Len(keepchains) = 2
    /\ \E i, j \in SelectPositions :
           /\ i < j
           /\ ChainBlockStart(i) = ChainBlockStart(j)
           /\ wayout[i].chain = keepchains[1][1]
    /\ \E i \in SelectPositions : wayout[i].chain = keepchains[2][1]

\* The score is assigned to bin i (0-based): it is below the upper boundary
\* of bin i and of no earlier bin
InBin(score, i) ==
    /\ score < binvalues[i + 2]
    /\ \A j \in 0 .. i - 1 : ~(score < binvalues[j + 2])

\* The residues of a chain of the table whose score is assigned to bin i
BinResidues(chain, i) ==
    LET residues == GetOr(rawscore_dict, chain, << >>)
    IN  {residues[n][1] : n \in {m \in 1 .. Len(residues) : InBin(residues[m][2], i)}}

\* A select directive of bin i of the chain, immediately followed by the
\* color directive of its selection
PairEmitted(chain, i) ==
    \E p \in SelectPositions :
        /\ wayout[p].chain = chain
        /\ wayout[p].binname.ordinal = i + 1
        /\ p + 1 \in BinColorPositions
        /\ wayout[p + 1].target.binname = wayout[p].binname

\* C12: in a complete script, for each kept chain and each bin i, a select and
\* color pair is emitted if and only if a residue of the chain was assigned to
\* bin i and not (i is the default bin index and the common bin is excluded);
\* a kept chain with no scored residue gets its whole-chain color directive and
\* no select directive.
C12_PairIffNonEmptyAndNotExcluded ==
    pc = "done" =>
        \A k \in 1 .. Len(keepchains) :
            LET chain == keepchains[k][1]
            IN  /\ \A i \in 0 .. Len(binvalues) - 2 :
                       PairEmitted(chain, i) <=>
                           /\ BinResidues(chain, i) /= {}
                           /\ ~(i = Val(defaultindex) /\ args.exclude_common_group)
                /\ Len(GetOr(rawscore_dict, chain, << >>)) = 0 =>
                       /\ \E p \in ChainColorPositions : wayout[p].target.chain = chain
                       /\ \A p \in SelectPositions : wayout[p].chain /= chain

\* A complete script with the common bin excluded, for a kept chain that has
\* a residue in the default bin and a residue in another bin, and a kept
\* chain that has no scored residue
C12_Witness ==
    /\ pc = "done"
    /\ args.exclude_common_group
    /\ Val(defaultindex) \in 0 .. Len(binvalues) - 2
    /\ \E k \in 1 .. Len(keepchains) :
           /\ BinResidues(keepchains[k][1], Val(defaultindex)) /= {}
           /\ \E i \in 0 .. Len(binvalues) - 2 :
                  i /= Val(defaultindex) /\ PairEmitted(keepchains[k][1], i)
    /\ \E k \in 1 .. Len(keepchains) :
           Len(GetOr(rawscore_dict, keepchains[k][1], << >>)) = 0

----------------------------------------------------------------------------
(* The table read_generic_data builds *)

\* The site column of a row can be turned into an integer
IntegerCoercible(row) == IntOfFloat(row.site).error = ""

\* The chain a row names: its chain column when one is read, else the default
RowChain(row) == IF ~IsNone(args.chain_column) THEN row.chain ELSE args.default_chain

\* The recorded rows with an integer-coercible site that name (chain, site)
RowsNaming(chain, site) ==
    {i \in 1 .. Len(lines) :
        /\ IntegerCoercible(lines[i])
        /\ RowChain(lines[i]) = chain
        /\ IntOfFloat(lines[i].site).site = site}

\* The entry of the table for (chain, site), None when there is none
TableEntry(chain, site) ==
    IF HasKey(rawscore_dict, chain) /\ HasKey(Get(rawscore_dict, chain), site)
    THEN Some(Get(Get(rawscore_dict, chain), site))
    ELSE None

\* The score of the last recorded row that names (chain, site)
LastWritten(chain, site) ==
    LET named == RowsNaming(chain, site)
    IN  IF named = {} THEN None
        ELSE lines[CHOOSE i \in named : \A j \in named : j <= i].score

\* The chains and sites of the recorded rows and of the table
ChainsSeen ==
    {RowChain(lines[i]) : i \in 1 .. Len(lines)} \cup SeqToSet(Keys(rawscore_dict))

SitesSeen ==
    {IntOfFloat(lines[i].site).site : i \in 1 .. Len(lines)}
    \cup UNION {SeqToSet(Keys(rawscore_dict[c][2])) : c \in 1 .. Len(rawscore_dict)}

\* The last-write-wins part of C13 alone
LastWriteWins ==
    pc \in {"read", "chains"} =>
        \A chain \in ChainsSeen : \A site \in SitesSeen :
            TableEntry(chain, site) = LastWritten(chain, site)

\* C13: after read_generic_data has read any sequence of data rows, the entry
\* of the table for each (chain, site) is the score of the last row with an
\* integer-coercible site that names it, and there is no other entry; and a
\* row whose site is not integer-coercible does not end the run: when
\* read_generic_data was ended by an exception, the row it was reading has an
\* integer-coercible site.
C13_LastWriteWinsAndBadSiteSkipped ==
    /\ LastWriteWins
    /\ pc = "readfailed" => IntegerCoercible(lines[Len(lines)])

----------------------------------------------------------------------------
(* The chains get_chains_only keeps *)

\* The sequence IDs asked for with -s: none when -s is not given
RequestedIDs == IF IsNone(args.sequence) THEN {} ELSE SeqToSet(Val(args.sequence))

\* No DBREF record of the PDB file read matches a requested sequence ID
NoDBREFMatches ==
    /\ ~IsNone(dbrefs)
    /\ \A n \in 1 .. Len(Val(dbrefs)) : \A seqid \in RequestedIDs :
           ~IsSubstring(Val(dbrefs)[n].proteinid, seqid)

\* C14: when get_chains_only has read a PDB file in which no DBREF record
\* matches a requested sequence ID (no -s given, or only DBREF records of other
\* proteins, or no DBREF record), it has not failed and it returns exactly the
\* default chain, with offset 0.
C14_FallsBackToDefaultChain ==
    (pc \in {"script", "failed"} /\ NoDBREFMatches) =>
        /\ error = ""
        /\ Keys(keepchains) = <<args.default_chain>>
        /\ refoffsets = << <<args.default_chain, 0>> >>

\* The fallback where it works: a PDB file without DBREF records
FallbackWithoutDBREF ==
    (pc \in {"script", "failed"} /\ dbrefs = Some(<< >>)) =>
        /\ error = ""
        /\ Keys(keepchains) = <<args.default_chain>>
        /\ refoffsets = << <<args.default_chain, 0>> >>

----------------------------------------------------------------------------
(* The color names of the script *)

\* The positions of the directives that color something
ColorPositions == {p \in 1 .. Len(wayout) : wayout[p].op = "color"}

\* The name is defined by a set_color directive written before position p
DefinedBefore(name, p) ==
    \E q \in 1 .. p - 1 : wayout[q].op = "set_color" /\ wayout[q].name = name

\* C15: every color name a color directive refers to was defined by a
\* set_color directive written earlier, and in a complete script no residue of
\* a kept chain is assigned to a bin beyond the 9 palette entries.
C15_ColorsDefinedBeforeUse ==
    /\ \A p \in ColorPositions : DefinedBefore(wayout[p].name, p)
    /\ pc = "done" =>
           \A k \in 1 .. Len(keepchains) :
               \A i \in PaletteSize .. Len(binvalues) - 2 :
                   BinResidues(keepchains[k][1], i) = {}

\* C16: in a complete script the color names the 9 set_color directives of
\* the palette entries define are pairwise distinct: no set_color directive
\* redefines the name of another palette entry.
C16_ColorNamesDistinct ==
    pc = "done" =>
        \A p, q \in SetColorPositions :
            p /= q => wayout[p].name /= wayout[q].name

====
